---- MODULE Spec2Model ----
(***************************************************************************)
(* Reffetorio volunteers hub: the booking path (ReservationCalendar's day   *)
(* buttons and handleReservation against the reservations table), the      *)
(* admin decision (the confirm-reservation edge function), the admin's     *)
(* notifications (the notify-admin and check-unfilled-slots edge           *)
(* functions), the shared email sender (sendEmail with its duplicate       *)
(* check, audit log and retry loop) and the admin_settings row that holds  *)
(* the configured capacity.                                                *)
(*                                                                         *)
(* Every await of the source is one step: between two awaits of one        *)
(* invocation the steps of other invocations may run.                      *)
(*                                                                         *)
(* Encodings.  A reservation id is its index in the reservations table, an *)
(* email_logs id its index in email_logs.  A related id is an integer:     *)
(* n > 0 stands for a string in UUID format (reservation ids are such), 0  *)
(* for undefined/null and n < 0 for a string that is not in UUID format.   *)
(* A recipient is a volunteer's number (its unique email).  The null of a  *)
(* numeric column is 0 (ids) or -1 (timestamps), that of a text column "". *)
(* Time is counted in minutes.  A calendar day is a day number whose       *)
(* remainder modulo 7 is its getDay(): 0 Sunday, 1 Monday, ... 6 Saturday. *)
(***************************************************************************)
EXTENDS Integers, Sequences, FiniteSets, TLC

\* ------------------------------------------------------------------ bounds
NumClients == 3
NumVolunteers == 3
NumDates == 1
NumEdges == 2
MaxInvocations == 2
MaxTime == 5
MaxDay == 2
MaxPerDay == 3

\* ------------------------------------------------------- program constants
\* Capacity of a day.  The source has 23; the model scales it down so that
\* NumClients concurrent reservers can fill a day and go one beyond.
MAX_SLOTS == 2
MAX_RETRIES == 3
RETRY_DELAY_MS == 1000
TIME_WINDOW_MINUTES == 5

Clients == 1..NumClients
Volunteers == 1..NumVolunteers
Dates == 1..NumDates
Edges == 1..NumEdges

\* ADMIN_EMAIL, the recipient of the admin's notifications: one beyond the
\* volunteers' addresses.
adminEmail == NumVolunteers + 1

Callers == {"no_token", "bad_token", "not_admin", "admin"}
GatewayOutcomes == {"id", "error", "no_id", "exception"}

VARIABLES
  reservations,   \* table public.reservations
  email_logs,     \* table public.email_logs
  gatewayCalls,   \* every resend.emails.send call made so far
  apiKey,         \* RESEND_API_KEY is configured
  now,            \* the store's clock NOW(), in minutes
  cl,             \* per browser client: where its handleReservation stands
  inv,            \* per edge-function worker: where its current invocation stands
  invocations,    \* number of edge-function invocations started so far
  today,          \* the calendar day of new Date(), as a day number
  selectedDate,   \* per browser client: the calendar's selectedDate (0: null)
  admin_settings  \* the row of table public.admin_settings

vars == <<reservations, email_logs, gatewayCalls, apiKey, now, cl, inv,
          invocations, today, selectedDate, admin_settings>>

\* ------------------------------------------------------------ reservations
\* get_reservations_count / the count query: rows of the date, not cancelled.
ActiveCount(rs, d) ==
  Cardinality({i \in 1..Len(rs) :
                 rs[i].reservation_date = d /\ rs[i].status # "cancelled"})

\* The row the migration inserts into admin_settings: the capacity column's
\* default is the number the calendar has as MAX_SLOTS.
DefaultSettings == [max_volunteers_per_day |-> MAX_SLOTS]

\* The SQL function get_available_slots, the one place that reads the
\* configured capacity (no code of the repository calls it).
get_available_slots(rs, settings, d) ==
  settings.max_volunteers_per_day - ActiveCount(rs, d)

\* Mutant: the uniqueness as a partial index over the rows not cancelled.
UniqueViolationActiveOnly(rs, v, d) ==
  \E i \in 1..Len(rs) :
    rs[i].volunteer_id = v /\ rs[i].reservation_date = d /\ rs[i].status # "cancelled"

\* Mutant: the table without its uniqueness constraint.
NoUniqueConstraint(rs, v, d) == FALSE

\* UNIQUE(volunteer_id, reservation_date): a row of any status conflicts.
UniqueViolation(rs, v, d) ==
  \E i \in 1..Len(rs) : rs[i].volunteer_id = v /\ rs[i].reservation_date = d

NewReservation(v, d) ==
  [volunteer_id |-> v, reservation_date |-> d, status |-> "pending",
   confirmed_at |-> -1]

\* The rows of date d, not cancelled, that belong to other volunteers than v.
OthersCount(v, d) ==
  Cardinality({i \in 1..Len(reservations) :
                 /\ reservations[i].reservation_date = d
                 /\ reservations[i].status # "cancelled"
                 /\ reservations[i].volunteer_id # v})

IdleClient == [pc |-> "idle", volunteer |-> 0, date |-> 0, result |-> ""]

\* The days loadWeekData lists: Monday to Friday of the displayed week.
WeekDays == {d \in Dates : d % 7 \in 1..5}

isPastDate(date) == date < today

\* The click on a day's button, which is disabled for a past day.
SelectDay(c, d) ==
  /\ cl[c].pc = "idle"
  /\ d \in WeekDays
  /\ ~isPastDate(d)
  /\ selectedDate' = [selectedDate EXCEPT ![c] = d]
  /\ UNCHANGED <<reservations, email_logs, gatewayCalls, apiKey, now, cl, inv,
                 invocations, today, admin_settings>>

\* The click on "Cancelar": setSelectedDate(null).
Unselect(c) ==
  /\ cl[c].pc = "idle"
  /\ selectedDate[c] # 0
  /\ selectedDate' = [selectedDate EXCEPT ![c] = 0]
  /\ UNCHANGED <<reservations, email_logs, gatewayCalls, apiKey, now, cl, inv,
                 invocations, today, admin_settings>>

\* handleReservation for the date d, first await: the capacity re-check.
ReserveCheck(c, v, d) ==
  /\ cl[c].pc = "idle"
  /\ LET count == ActiveCount(reservations, d) IN
       cl' = [cl EXCEPT ![c] =
                IF count >= MAX_SLOTS
                  THEN [pc |-> "done", volunteer |-> v, date |-> d,
                        result |-> "CapacityExceeded"]
                  ELSE [pc |-> "insert", volunteer |-> v, date |-> d,
                        result |-> ""]]
  /\ UNCHANGED <<reservations, email_logs, gatewayCalls, apiKey, now, inv, invocations, today, selectedDate,
                 admin_settings>>

\* Mutant: the insert as an upsert, which on a conflict with a cancelled row
\* makes that row pending again.
ReserveInsertUpsert(c) ==
  /\ cl[c].pc = "insert"
  /\ IF UniqueViolationActiveOnly(reservations, cl[c].volunteer, cl[c].date)
       THEN /\ cl' = [cl EXCEPT ![c].pc = "done",
                                ![c].result = "DuplicateBooking"]
            /\ UNCHANGED reservations
            /\ UNCHANGED selectedDate
       ELSE /\ reservations' =
                 IF UniqueViolation(reservations, cl[c].volunteer, cl[c].date)
                   THEN [i \in 1..Len(reservations) |->
                           IF /\ reservations[i].volunteer_id = cl[c].volunteer
                              /\ reservations[i].reservation_date = cl[c].date
                             THEN NewReservation(cl[c].volunteer, cl[c].date)
                             ELSE reservations[i]]
                   ELSE Append(reservations,
                               NewReservation(cl[c].volunteer, cl[c].date))
            /\ cl' = [cl EXCEPT ![c].pc = "done", ![c].result = "Reserved"]
            /\ selectedDate' = [selectedDate EXCEPT ![c] = 0]
  /\ UNCHANGED <<email_logs, gatewayCalls, apiKey, now, inv, invocations, today,
                 admin_settings>>

\* handleReservation, second await: the insert, and what it answers.
ReserveInsert(c) ==
  /\ cl[c].pc = "insert"
  /\ IF UniqueViolation(reservations, cl[c].volunteer, cl[c].date)
       THEN /\ cl' = [cl EXCEPT ![c].pc = "done",
                                ![c].result = "DuplicateBooking"]
            /\ UNCHANGED reservations
            /\ UNCHANGED selectedDate
       ELSE /\ reservations' =
                 Append(reservations, NewReservation(cl[c].volunteer, cl[c].date))
            /\ cl' = [cl EXCEPT ![c].pc = "done", ![c].result = "Reserved"]
            /\ selectedDate' = [selectedDate EXCEPT ![c] = 0]
  /\ UNCHANGED <<email_logs, gatewayCalls, apiKey, now, inv, invocations, today,
                 admin_settings>>


\* ------------------------------------------------------------- email sender
\* Mutant: the format check reduced to "not empty".
isValidUUIDNonEmpty(str) == str # 0

\* isValidUUID: a string in UUID format (an absent one is not).
isValidUUID(str) == str > 0

\* Mutant: the window's bound compared with >= (a row exactly
\* TIME_WINDOW_MINUTES old still counts).
check_duplicate_email_inclusive(logs, t, p_email_to, p_email_type, p_related_id) ==
  \E i \in 1..Len(logs) :
    /\ logs[i].email_to = p_email_to
    /\ logs[i].email_type = p_email_type
    /\ logs[i].related_id = p_related_id
    /\ logs[i].status \in {"sent", "pending"}
    /\ logs[i].created_at >= t - TIME_WINDOW_MINUTES

\* Mutant: the window's interval built in seconds, which at the clock's
\* granularity of a minute is no window at all.
check_duplicate_email_seconds(logs, t, p_email_to, p_email_type, p_related_id) ==
  \E i \in 1..Len(logs) :
    /\ logs[i].email_to = p_email_to
    /\ logs[i].email_type = p_email_type
    /\ logs[i].related_id = p_related_id
    /\ logs[i].status \in {"sent", "pending"}
    /\ logs[i].created_at > t

\* Mutant: the lookup without its condition on status, so that a row
\* counts whatever became of its send.
check_duplicate_email_any_status(logs, t, p_email_to, p_email_type, p_related_id) ==
  \E i \in 1..Len(logs) :
    /\ logs[i].email_to = p_email_to
    /\ logs[i].email_type = p_email_type
    /\ logs[i].related_id = p_related_id
    /\ logs[i].created_at > t - TIME_WINDOW_MINUTES

\* The SQL function check_duplicate_email at the store's time t.
check_duplicate_email(logs, t, p_email_to, p_email_type, p_related_id) ==
  \E i \in 1..Len(logs) :
    /\ logs[i].email_to = p_email_to
    /\ logs[i].email_type = p_email_type
    /\ logs[i].related_id = p_related_id
    /\ logs[i].status \in {"sent", "pending"}
    /\ logs[i].created_at > t - TIME_WINDOW_MINUTES

\* checkDuplicateEmail: the rpc is made only for a related id in UUID format,
\* and an rpc that errors counts as "no duplicate".
checkDuplicateEmail(logs, t, to, emailType, relatedId, rpcError) ==
  IF relatedId = 0 \/ ~isValidUUID(relatedId) THEN FALSE
  ELSE IF rpcError THEN FALSE
  ELSE check_duplicate_email(logs, t, to, emailType, relatedId)

\* logEmailAttempt's row: a related id that is not a UUID is stored as null.
NewLog(to, emailType, relatedId, t) ==
  [email_to |-> to, email_type |-> emailType, status |-> "pending",
   resend_message_id |-> 0, error_message |-> "", retry_count |-> 0,
   related_id |-> IF isValidUUID(relatedId) THEN relatedId ELSE 0,
   created_at |-> t, sent_at |-> -1]

\* Math.pow(2, n) for the exponents the retry loop uses.
RECURSIVE Pow2(_)
Pow2(n) == IF n <= 0 THEN 1 ELSE 2 * Pow2(n - 1)

\* Mutant: the exponent not reduced by one (2000 ms, then 4000 ms).
BackoffFromTwo(retryCount) == RETRY_DELAY_MS * Pow2(retryCount)

\* The exponential backoff after the failed attempt number retryCount.
Backoff(retryCount) == RETRY_DELAY_MS * Pow2(retryCount - 1)

ErrorText(outcome) ==
  CASE outcome = "error" -> "resend error"
    [] outcome = "no_id" -> "Resend no devolvio un ID de mensaje valido"
    [] OTHER -> "exception"

NoResult == [success |-> FALSE, messageId |-> 0, error |-> "", logId |-> 0]
NoResp == [code |-> 0, error |-> "", message |-> "", status |-> "",
           emailSent |-> FALSE, messageId |-> 0, logId |-> 0]

\* rpcError and storeError record what the store did to the invocation's
\* sendEmail: the duplicate lookup errored, a write of email_logs was refused.
IdleInv ==
  [pc |-> "idle", n |-> 0, handler |-> "", caller |-> "",
   reservation_id |-> 0, action |-> "",
   to |-> 0, emailType |-> "", relatedId |-> 0,
   rpcError |-> FALSE, storeError |-> FALSE, logId |-> 0, retryCount |-> 0,
   lastError |-> "",
   messageId |-> 0, delay |-> 0, result |-> NoResult, resp |-> NoResp]

ErrorResp(code, msg) == [NoResp EXCEPT !.code = code, !.error = msg]

\* ----------------------------------------------- confirm-reservation handler
NewStatus(action) == IF action = "confirm" THEN "confirmed" ELSE "cancelled"

\* Mutant: the handler throws when the email failed, as notify-admin does.
DecideResponseThrowing(action, r) ==
  IF r.success
    THEN [code |-> 200, error |-> "", message |-> "", status |-> NewStatus(action),
          emailSent |-> TRUE, messageId |-> r.messageId, logId |-> r.logId]
    ELSE ErrorResp(500, "Error al enviar notificacion")

\* Mutant: emailSent tells whether the gateway gave this call a message id.
DecideResponseDeliveredOnly(action, r) ==
  [code |-> 200, error |-> "", message |-> "", status |-> NewStatus(action),
   emailSent |-> r.success /\ r.messageId # 0, messageId |-> r.messageId,
   logId |-> r.logId]

\* What the handler answers once sendEmail has returned r: a failed email is
\* logged, not thrown.
DecideResponse(action, r) ==
  [code |-> 200, error |-> "", message |-> "", status |-> NewStatus(action),
   emailSent |-> r.success, messageId |-> r.messageId, logId |-> r.logId]

\* What notify-admin and check-unfilled-slots answer once sendEmail has
\* returned r: a failed email is thrown into the handler's catch.
NotifyResponse(handler, r) ==
  IF r.success
    THEN [NoResp EXCEPT !.code = 200, !.message = "success",
                        !.messageId = r.messageId, !.logId = r.logId]
    ELSE ErrorResp(500, IF handler = "notify-admin"
                          THEN "Error al enviar notificacion"
                          ELSE "Error al enviar alerta")

\* sendEmail returned r to the handler of invocation e: the handler answers.
Return(e, r) ==
  [inv EXCEPT ![e].pc = "done", ![e].result = r,
              ![e].resp = IF inv[e].handler = "confirm-reservation"
                            THEN DecideResponse(inv[e].action, r)
                            ELSE NotifyResponse(inv[e].handler, r)]

\* sendEmail threw msg into the handler of invocation e: the handler's catch.
Throw(e, msg) ==
  [inv EXCEPT ![e].pc = "done", ![e].resp = ErrorResp(500, msg)]

\* A fresh invocation of the handler, the next one served.
Begin == [IdleInv EXCEPT !.n = invocations + 1, !.handler = "confirm-reservation"]

\* A fresh invocation whose request comes from caller.
BeginAs(caller) == [Begin EXCEPT !.caller = caller]

\* Mutant: the token is verified but the admin role is not looked up.
DecideFetchNoRoleCheck(e, caller, rid, action) ==
  /\ inv[e].pc \in {"idle", "done"}
  /\ invocations < MaxInvocations
  /\ invocations' = invocations + 1
  /\ inv' = [inv EXCEPT ![e] =
       IF caller = "no_token"
         THEN [BeginAs(caller) EXCEPT !.pc = "done",
                              !.resp = ErrorResp(401, "No autorizado")]
       ELSE IF caller = "bad_token"
         THEN [BeginAs(caller) EXCEPT !.pc = "done",
                              !.resp = ErrorResp(401, "Token invalido")]
       ELSE IF rid \notin 1..Len(reservations)
         THEN [BeginAs(caller) EXCEPT !.pc = "done",
                              !.reservation_id = rid, !.action = action,
                              !.resp = ErrorResp(500, "Reservacion no encontrada")]
       ELSE [BeginAs(caller) EXCEPT !.pc = "update",
                            !.reservation_id = rid, !.action = action,
                            !.to = reservations[rid].volunteer_id]]
  /\ UNCHANGED <<reservations, email_logs, gatewayCalls, apiKey, now, cl, today, selectedDate,
                 admin_settings>>

\* The admin check, the body and the fetch of the reservation.
DecideFetch(e, caller, rid, action) ==
  /\ inv[e].pc \in {"idle", "done"}
  /\ invocations < MaxInvocations
  /\ invocations' = invocations + 1
  /\ inv' = [inv EXCEPT ![e] =
       IF caller = "no_token"
         THEN [BeginAs(caller) EXCEPT !.pc = "done",
                              !.resp = ErrorResp(401, "No autorizado")]
       ELSE IF caller = "bad_token"
         THEN [BeginAs(caller) EXCEPT !.pc = "done",
                              !.resp = ErrorResp(401, "Token invalido")]
       ELSE IF caller = "not_admin"
         THEN [BeginAs(caller) EXCEPT !.pc = "done",
                              !.resp = ErrorResp(403, "Se requieren permisos de administrador")]
       ELSE IF rid \notin 1..Len(reservations)
         THEN [BeginAs(caller) EXCEPT !.pc = "done",
                              !.reservation_id = rid, !.action = action,
                              !.resp = ErrorResp(500, "Reservacion no encontrada")]
       ELSE [BeginAs(caller) EXCEPT !.pc = "update",
                            !.reservation_id = rid, !.action = action,
                            !.to = reservations[rid].volunteer_id]]
  /\ UNCHANGED <<reservations, email_logs, gatewayCalls, apiKey, now, cl, today, selectedDate,
                 admin_settings>>

\* Mutant: the handler refuses a reservation that already has the new status.
DecideUpdateGuarded(e, updateError) ==
  /\ inv[e].pc = "update"
  /\ IF reservations[inv[e].reservation_id].status = NewStatus(inv[e].action)
       THEN /\ inv' = Throw(e, "Reservacion ya procesada")
            /\ UNCHANGED reservations
       ELSE IF updateError
       THEN /\ inv' = Throw(e, "Error al actualizar reservacion")
            /\ UNCHANGED reservations
       ELSE /\ reservations' =
                 [reservations EXCEPT ![inv[e].reservation_id] =
                    [@ EXCEPT !.status = NewStatus(inv[e].action),
                              !.confirmed_at =
                                 IF inv[e].action = "confirm" THEN now ELSE -1]]
            /\ inv' = [inv EXCEPT ![e].pc = "send",
                         ![e].emailType = IF inv[e].action = "confirm"
                                            THEN "confirmation" ELSE "cancellation",
                         ![e].relatedId = inv[e].reservation_id]
  /\ UNCHANGED <<email_logs, gatewayCalls, apiKey, now, cl, invocations, today, selectedDate,
                 admin_settings>>

\* Mutant: the update's error is not looked at; the notification is sent
\* whether the row was updated or not.
DecideUpdateIgnoringError(e, updateError) ==
  /\ inv[e].pc = "update"
  /\ IF updateError
       THEN UNCHANGED reservations
       ELSE reservations' =
              [reservations EXCEPT ![inv[e].reservation_id] =
                 [@ EXCEPT !.status = NewStatus(inv[e].action),
                           !.confirmed_at =
                              IF inv[e].action = "confirm" THEN now ELSE -1]]
  /\ inv' = [inv EXCEPT ![e].pc = "send",
               ![e].emailType = IF inv[e].action = "confirm"
                                  THEN "confirmation" ELSE "cancellation",
               ![e].relatedId = inv[e].reservation_id]
  /\ UNCHANGED <<email_logs, gatewayCalls, apiKey, now, cl, invocations, today, selectedDate,
                 admin_settings>>

\* Mutant: a cancel writes the status only and leaves confirmed_at as it is.
DecideUpdateKeepsStamp(e, updateError) ==
  /\ inv[e].pc = "update"
  /\ IF updateError
       THEN /\ inv' = Throw(e, "Error al actualizar reservacion")
            /\ UNCHANGED reservations
       ELSE /\ reservations' =
                 [reservations EXCEPT ![inv[e].reservation_id] =
                    [@ EXCEPT !.status = NewStatus(inv[e].action),
                              !.confirmed_at =
                                 IF inv[e].action = "confirm" THEN now ELSE @]]
            /\ inv' = [inv EXCEPT ![e].pc = "send",
                         ![e].emailType = IF inv[e].action = "confirm"
                                            THEN "confirmation" ELSE "cancellation",
                         ![e].relatedId = inv[e].reservation_id]
  /\ UNCHANGED <<email_logs, gatewayCalls, apiKey, now, cl, invocations, today,
                 selectedDate, admin_settings>>

\* The update of the row, whatever its status is; then sendEmail is called.
DecideUpdate(e, updateError) ==
  /\ inv[e].pc = "update"
  /\ IF updateError
       THEN /\ inv' = Throw(e, "Error al actualizar reservacion")
            /\ UNCHANGED reservations
       ELSE /\ reservations' =
                 [reservations EXCEPT ![inv[e].reservation_id] =
                    [@ EXCEPT !.status = NewStatus(inv[e].action),
                              !.confirmed_at =
                                 IF inv[e].action = "confirm" THEN now ELSE -1]]
            /\ inv' = [inv EXCEPT ![e].pc = "send",
                         ![e].emailType = IF inv[e].action = "confirm"
                                            THEN "confirmation" ELSE "cancellation",
                         ![e].relatedId = inv[e].reservation_id]
  /\ UNCHANGED <<email_logs, gatewayCalls, apiKey, now, cl, invocations, today, selectedDate,
                 admin_settings>>

\* ------------------------------------------------------- notify-admin handler
\* The handler up to its call of sendEmail.  The body's reservation_id is any
\* string (0: missing); complete tells whether the other fields are there,
\* configured whether ADMIN_EMAIL is set.  The handler checks no caller.
NotifyAdmin(e, reservation_id, complete, configured) ==
  /\ inv[e].pc \in {"idle", "done"}
  /\ invocations < MaxInvocations
  /\ invocations' = invocations + 1
  /\ LET begin == [Begin EXCEPT !.handler = "notify-admin",
                                !.reservation_id = reservation_id] IN
     inv' = [inv EXCEPT ![e] =
       IF reservation_id = 0 \/ ~complete
         THEN [begin EXCEPT !.pc = "done",
                            !.resp = ErrorResp(500, "Faltan campos requeridos")]
       ELSE IF ~configured
         THEN [begin EXCEPT !.pc = "done",
                            !.resp = ErrorResp(500, "ADMIN_EMAIL no configurado")]
       ELSE [begin EXCEPT !.pc = "send", !.to = adminEmail,
                          !.emailType = "new_reservation",
                          !.relatedId = reservation_id]]
  /\ UNCHANGED <<reservations, email_logs, gatewayCalls, apiKey, now, cl, today,
                 selectedDate, admin_settings>>

\* ------------------------------------------------ check-unfilled-slots handler
\* `alert-${tomorrowStr}`: a string that is not in UUID format.
alertId(tomorrow) == 0 - tomorrow

\* Mutant: the day counts as filled only beyond its capacity.
CheckUnfilledSlotsOffByOne(e, caller, configured) ==
  /\ inv[e].pc \in {"idle", "done"}
  /\ invocations < MaxInvocations
  /\ invocations' = invocations + 1
  /\ LET begin == [BeginAs(caller) EXCEPT !.handler = "check-unfilled-slots"]
         tomorrow == today + 1
         dayOfWeek == tomorrow % 7
         currentCount == ActiveCount(reservations, tomorrow)
     IN
     inv' = [inv EXCEPT ![e] =
       IF ~configured
         THEN [begin EXCEPT !.pc = "done",
                            !.resp = ErrorResp(500, "ADMIN_EMAIL no configurado")]
       ELSE IF caller = "no_token"
         THEN [begin EXCEPT !.pc = "done",
                            !.resp = ErrorResp(401, "No autorizado")]
       ELSE IF caller = "bad_token"
         THEN [begin EXCEPT !.pc = "done",
                            !.resp = ErrorResp(401, "Token invalido")]
       ELSE IF caller = "not_admin"
         THEN [begin EXCEPT !.pc = "done",
                            !.resp = ErrorResp(403, "Se requieren permisos de administrador")]
       ELSE IF dayOfWeek = 0 \/ dayOfWeek = 6
         THEN [begin EXCEPT !.pc = "done",
                 !.resp = [NoResp EXCEPT !.code = 200,
                             !.message = "Tomorrow is weekend, no check needed"]]
       ELSE IF currentCount > MAX_SLOTS
         THEN [begin EXCEPT !.pc = "done",
                 !.resp = [NoResp EXCEPT !.code = 200,
                             !.message = "All slots filled for tomorrow"]]
       ELSE [begin EXCEPT !.pc = "send", !.to = adminEmail,
                          !.emailType = "unfilled_slots_alert",
                          !.relatedId = alertId(tomorrow)]]
  /\ UNCHANGED <<reservations, email_logs, gatewayCalls, apiKey, now, cl, today,
                 selectedDate, admin_settings>>

\* The handler up to its call of sendEmail: ADMIN_EMAIL, the admin check,
\* tomorrow's day of the week and tomorrow's count.
CheckUnfilledSlots(e, caller, configured) ==
  /\ inv[e].pc \in {"idle", "done"}
  /\ invocations < MaxInvocations
  /\ invocations' = invocations + 1
  /\ LET begin == [BeginAs(caller) EXCEPT !.handler = "check-unfilled-slots"]
         tomorrow == today + 1
         dayOfWeek == tomorrow % 7
         currentCount == ActiveCount(reservations, tomorrow)
     IN
     inv' = [inv EXCEPT ![e] =
       IF ~configured
         THEN [begin EXCEPT !.pc = "done",
                            !.resp = ErrorResp(500, "ADMIN_EMAIL no configurado")]
       ELSE IF caller = "no_token"
         THEN [begin EXCEPT !.pc = "done",
                            !.resp = ErrorResp(401, "No autorizado")]
       ELSE IF caller = "bad_token"
         THEN [begin EXCEPT !.pc = "done",
                            !.resp = ErrorResp(401, "Token invalido")]
       ELSE IF caller = "not_admin"
         THEN [begin EXCEPT !.pc = "done",
                            !.resp = ErrorResp(403, "Se requieren permisos de administrador")]
       ELSE IF dayOfWeek = 0 \/ dayOfWeek = 6
         THEN [begin EXCEPT !.pc = "done",
                 !.resp = [NoResp EXCEPT !.code = 200,
                             !.message = "Tomorrow is weekend, no check needed"]]
       ELSE IF currentCount >= MAX_SLOTS
         THEN [begin EXCEPT !.pc = "done",
                 !.resp = [NoResp EXCEPT !.code = 200,
                             !.message = "All slots filled for tomorrow"]]
       ELSE [begin EXCEPT !.pc = "send", !.to = adminEmail,
                          !.emailType = "unfilled_slots_alert",
                          !.relatedId = alertId(tomorrow)]]
  /\ UNCHANGED <<reservations, email_logs, gatewayCalls, apiKey, now, cl, today,
                 selectedDate, admin_settings>>

\* ------------------------------------------------------------------ sendEmail
\* The positions of an invocation inside sendEmail.
SendPcs == {"send", "log", "attempt", "mark_sent", "mark_retrying", "sleep",
            "mark_failed"}

\* Mutant: a suppressed send is written to the audit log.
SendCheckDuplicateLogging(e, rpcError) ==
  /\ inv[e].pc = "send"
  /\ IF ~apiKey
       THEN /\ inv' = Throw(e, "RESEND_API_KEY no esta configurado")
            /\ UNCHANGED email_logs
       ELSE IF checkDuplicateEmail(email_logs, now, inv[e].to, inv[e].emailType,
                                   inv[e].relatedId, rpcError)
         THEN /\ inv' = Return(e, [success |-> TRUE, messageId |-> 0,
                                   error |-> "duplicate prevention", logId |-> 0])
              /\ email_logs' = Append(email_logs,
                   [NewLog(inv[e].to, inv[e].emailType, inv[e].relatedId, now)
                      EXCEPT !.status = "failed",
                             !.error_message = "duplicate prevention"])
         ELSE /\ inv' = [inv EXCEPT ![e].pc = "log",
                           ![e].rpcError = rpcError /\ isValidUUID(inv[e].relatedId)]
              /\ UNCHANGED email_logs
  /\ UNCHANGED <<reservations, gatewayCalls, apiKey, now, cl, invocations, today, selectedDate,
                 admin_settings>>

\* getResendClient, then the duplicate check.
SendCheckDuplicate(e, rpcError) ==
  /\ inv[e].pc = "send"
  /\ IF ~apiKey
       THEN inv' = Throw(e, "RESEND_API_KEY no esta configurado")
       ELSE IF checkDuplicateEmail(email_logs, now, inv[e].to, inv[e].emailType,
                                   inv[e].relatedId, rpcError)
         THEN inv' = Return(e, [success |-> TRUE, messageId |-> 0,
                                error |-> "duplicate prevention", logId |-> 0])
         ELSE inv' = [inv EXCEPT ![e].pc = "log",
                        ![e].rpcError = rpcError /\ isValidUUID(inv[e].relatedId)]
  /\ UNCHANGED <<reservations, email_logs, gatewayCalls, apiKey, now, cl, invocations, today, selectedDate,
                 admin_settings>>

\* logEmailAttempt(..., 'pending'): an insert that fails leaves logId null.
SendLog(e, insertError) ==
  /\ inv[e].pc = "log"
  /\ IF insertError
       THEN /\ inv' = [inv EXCEPT ![e].pc = "attempt", ![e].logId = 0,
                                  ![e].storeError = TRUE]
            /\ UNCHANGED email_logs
       ELSE /\ email_logs' = Append(email_logs,
                 NewLog(inv[e].to, inv[e].emailType, inv[e].relatedId, now))
            /\ inv' = [inv EXCEPT ![e].pc = "attempt",
                                  ![e].logId = Len(email_logs) + 1]
  /\ UNCHANGED <<reservations, gatewayCalls, apiKey, now, cl, invocations, today, selectedDate,
                 admin_settings>>

\* Mutant: the loop's bound off by one (retryCount <= MAX_RETRIES).
SendAttemptOneMore(e, outcome) ==
  /\ inv[e].pc = "attempt"
  /\ inv[e].retryCount <= MAX_RETRIES
  /\ gatewayCalls' = gatewayCalls \cup
       {[by |-> inv[e].n, attempt |-> inv[e].retryCount + 1, to |-> inv[e].to,
         emailType |-> inv[e].emailType, relatedId |-> inv[e].relatedId,
         ok |-> outcome = "id"]}
  /\ IF outcome = "id"
       THEN inv' = [inv EXCEPT ![e].pc = "mark_sent",
                               ![e].messageId = Cardinality(gatewayCalls) + 1]
       ELSE inv' = [inv EXCEPT
                      ![e].lastError = ErrorText(outcome),
                      ![e].retryCount = @ + 1,
                      ![e].pc = IF inv[e].retryCount + 1 <= MAX_RETRIES
                                  THEN "mark_retrying" ELSE "mark_failed"]
  /\ UNCHANGED <<reservations, email_logs, apiKey, now, cl, invocations, today, selectedDate,
                 admin_settings>>

\* One pass of the retry loop up to the gateway's answer.
SendAttempt(e, outcome) ==
  /\ inv[e].pc = "attempt"
  /\ inv[e].retryCount < MAX_RETRIES
  /\ gatewayCalls' = gatewayCalls \cup
       {[by |-> inv[e].n, attempt |-> inv[e].retryCount + 1, to |-> inv[e].to,
         emailType |-> inv[e].emailType, relatedId |-> inv[e].relatedId,
         ok |-> outcome = "id"]}
  /\ IF outcome = "id"
       THEN inv' = [inv EXCEPT ![e].pc = "mark_sent",
                               ![e].messageId = Cardinality(gatewayCalls) + 1]
       ELSE inv' = [inv EXCEPT
                      ![e].lastError = ErrorText(outcome),
                      ![e].retryCount = @ + 1,
                      ![e].pc = IF inv[e].retryCount + 1 < MAX_RETRIES
                                  THEN "mark_retrying" ELSE "mark_failed"]
  /\ UNCHANGED <<reservations, email_logs, apiKey, now, cl, invocations, today, selectedDate,
                 admin_settings>>

\* Mutant: the update without its .eq('id', logId) filter, which writes the
\* new status and retry count to every row of the table.
updateEmailLogNoFilter(logs, logId, updateError, row) ==
  IF logId = 0 \/ updateError THEN logs
  ELSE [i \in 1..Len(logs) |->
          [logs[i] EXCEPT !.status = row.status, !.retry_count = row.retry_count]]

\* updateEmailLog: an update that fails is swallowed.
updateEmailLog(logs, logId, updateError, row) ==
  IF logId = 0 \/ updateError THEN logs ELSE [logs EXCEPT ![logId] = row]

\* Mutant: the row records the number of the attempt, not that of the retries.
SendMarkSentCountsAttempt(e, updateError) ==
  /\ inv[e].pc = "mark_sent"
  /\ email_logs' = updateEmailLog(email_logs, inv[e].logId, updateError,
       [email_logs[inv[e].logId] EXCEPT
          !.status = "sent", !.resend_message_id = inv[e].messageId,
          !.retry_count = inv[e].retryCount + 1, !.sent_at = now])
  /\ inv' = [Return(e, [success |-> TRUE, messageId |-> inv[e].messageId,
                        error |-> "", logId |-> inv[e].logId])
               EXCEPT ![e].storeError = @ \/ (inv[e].logId # 0 /\ updateError)]
  /\ UNCHANGED <<reservations, gatewayCalls, apiKey, now, cl, invocations, today, selectedDate,
                 admin_settings>>

\* The gateway gave an id: the row becomes sent and sendEmail returns.
SendMarkSent(e, updateError) ==
  /\ inv[e].pc = "mark_sent"
  /\ email_logs' = updateEmailLog(email_logs, inv[e].logId, updateError,
       [email_logs[inv[e].logId] EXCEPT
          !.status = "sent", !.resend_message_id = inv[e].messageId,
          !.retry_count = inv[e].retryCount, !.sent_at = now])
  /\ inv' = [Return(e, [success |-> TRUE, messageId |-> inv[e].messageId,
                        error |-> "", logId |-> inv[e].logId])
               EXCEPT ![e].storeError = @ \/ (inv[e].logId # 0 /\ updateError)]
  /\ UNCHANGED <<reservations, gatewayCalls, apiKey, now, cl, invocations, today, selectedDate,
                 admin_settings>>

\* A failed attempt that is not the last: the row becomes retrying.
SendMarkRetrying(e, updateError) ==
  /\ inv[e].pc = "mark_retrying"
  /\ email_logs' = updateEmailLog(email_logs, inv[e].logId, updateError,
       [email_logs[inv[e].logId] EXCEPT
          !.status = "retrying", !.error_message = inv[e].lastError,
          !.retry_count = inv[e].retryCount])
  /\ inv' = [inv EXCEPT ![e].pc = "sleep",
                        ![e].delay = Backoff(inv[e].retryCount),
                        ![e].storeError = @ \/ (inv[e].logId # 0 /\ updateError)]
  /\ UNCHANGED <<reservations, gatewayCalls, apiKey, now, cl, invocations, today, selectedDate,
                 admin_settings>>

\* The backoff is over: the loop goes round.
SendWake(e) ==
  /\ inv[e].pc = "sleep"
  /\ inv' = [inv EXCEPT ![e].pc = "attempt"]
  /\ UNCHANGED <<reservations, email_logs, gatewayCalls, apiKey, now, cl, invocations, today, selectedDate,
                 admin_settings>>

\* Mutant: the last failure is returned without being written to the row.
SendMarkFailedUnlogged(e, updateError) ==
  /\ inv[e].pc = "mark_failed"
  /\ inv' = Return(e, [success |-> FALSE, messageId |-> 0,
                       error |-> inv[e].lastError, logId |-> inv[e].logId])
  /\ UNCHANGED <<reservations, email_logs, gatewayCalls, apiKey, now, cl,
                 invocations, today, selectedDate, admin_settings>>

\* All attempts failed: the row becomes failed and sendEmail returns.
SendMarkFailed(e, updateError) ==
  /\ inv[e].pc = "mark_failed"
  /\ email_logs' = updateEmailLog(email_logs, inv[e].logId, updateError,
       [email_logs[inv[e].logId] EXCEPT
          !.status = "failed", !.error_message = inv[e].lastError,
          !.retry_count = inv[e].retryCount])
  /\ inv' = [Return(e, [success |-> FALSE, messageId |-> 0,
                        error |-> inv[e].lastError, logId |-> inv[e].logId])
               EXCEPT ![e].storeError = @ \/ (inv[e].logId # 0 /\ updateError)]
  /\ UNCHANGED <<reservations, gatewayCalls, apiKey, now, cl, invocations, today, selectedDate,
                 admin_settings>>

\* An update of admin_settings.max_volunteers_per_day sent to the store: the
\* row-level policy lets it reach the row only for a caller with the admin role.
UpdateSettings(caller, M) ==
  /\ admin_settings' =
       IF caller = "admin"
         THEN [admin_settings EXCEPT !.max_volunteers_per_day = M]
         ELSE admin_settings
  /\ UNCHANGED <<reservations, email_logs, gatewayCalls, apiKey, now, cl, inv,
                 invocations, today, selectedDate>>

\* The worker is stopped inside sendEmail and started again: what sendEmail
\* holds of its send (logId, retryCount, lastError) are locals of the call
\* and go with it; the fresh worker waits for a request.
Restart(e) ==
  /\ inv[e].pc \in SendPcs
  /\ inv' = [inv EXCEPT ![e] = IdleInv]
  /\ UNCHANGED <<reservations, email_logs, gatewayCalls, apiKey, now, cl,
                 invocations, today, selectedDate, admin_settings>>

\* The calendar day changes.
Midnight ==
  /\ today < MaxDay
  /\ today' = today + 1
  /\ UNCHANGED <<reservations, email_logs, gatewayCalls, apiKey, now, cl, inv,
                 invocations, selectedDate, admin_settings>>

\* Time passes.
Tick ==
  /\ now < MaxTime
  /\ now' = now + 1
  /\ UNCHANGED <<reservations, email_logs, gatewayCalls, apiKey, cl, inv, invocations, today, selectedDate,
                 admin_settings>>

\* ------------------------------------------------------------ specifications
Init ==
  /\ reservations = <<>>
  /\ email_logs = <<>>
  /\ gatewayCalls = {}
  /\ apiKey \in BOOLEAN
  /\ now = 0
  /\ cl = [c \in Clients |-> IdleClient]
  /\ inv = [e \in Edges |-> IdleInv]
  /\ invocations = 0
  /\ today = 1
  /\ selectedDate = [c \in Clients |-> 0]
  /\ admin_settings = DefaultSettings

\* Two volunteers hold a pending reservation each, made by clients 1 and 2.
InitBooked ==
  /\ reservations = <<NewReservation(1, 1), NewReservation(2, 1)>>
  /\ email_logs = <<>>
  /\ gatewayCalls = {}
  /\ apiKey \in BOOLEAN
  /\ now = 0
  /\ cl = [c \in Clients |->
             IF c <= 2 THEN [pc |-> "done", volunteer |-> c, date |-> 1,
                             result |-> "Reserved"]
                       ELSE IdleClient]
  /\ inv = [e \in Edges |-> IdleInv]
  /\ invocations = 0
  /\ today = 1
  /\ selectedDate = [c \in Clients |-> 0]
  /\ admin_settings = DefaultSettings

\* A Sunday, a Friday or a Saturday, with the Monday (day 1) booked by one volunteer or
\* by as many as there are slots.
InitAlert ==
  /\ \E k \in 1..MAX_SLOTS : reservations = [i \in 1..k |-> NewReservation(i, 1)]
  /\ email_logs = <<>>
  /\ gatewayCalls = {}
  /\ apiKey \in BOOLEAN
  /\ now = 0
  /\ cl = [c \in Clients |->
             IF c <= Len(reservations)
               THEN [pc |-> "done", volunteer |-> c, date |-> 1,
                     result |-> "Reserved"]
               ELSE IdleClient]
  /\ inv = [e \in Edges |-> IdleInv]
  /\ invocations = 0
  /\ today \in {0, 5, 6}
  /\ selectedDate = [c \in Clients |-> 0]
  /\ admin_settings = DefaultSettings

\* The browser clients, each clicking a day and the button at once.
Reserve ==
  \E c \in Clients :
    \/ \E v \in Volunteers, d \in Dates : ReserveCheck(c, v, d)
    \/ ReserveInsert(c)

\* The calendar of the browser clients C: a day is selected, then submitted.
Book(C) ==
  \E c \in C :
    \/ \E d \in Dates : SelectDay(c, d)
    \/ Unselect(c)
    \/ \E v \in Volunteers : selectedDate[c] # 0 /\ ReserveCheck(c, v, selectedDate[c])
    \/ ReserveInsert(c)

\* The notify-admin handler on the workers E, up to its call of sendEmail.
Notify(E) ==
  \E e \in E :
    \E reservation_id \in (0 - 1)..Len(reservations),
       complete \in BOOLEAN, configured \in BOOLEAN :
      NotifyAdmin(e, reservation_id, complete, configured)

\* The check-unfilled-slots handler on the workers E, up to its call of sendEmail.
Alert(E) ==
  \E e \in E :
    \E caller \in Callers, configured \in BOOLEAN :
      CheckUnfilledSlots(e, caller, configured)

\* The confirm-reservation handler on the workers E, up to its call of sendEmail.
Decide(E) ==
  \E e \in E :
    \/ \E caller \in Callers, rid \in 1..(Len(reservations) + 1),
          action \in {"confirm", "cancel"} : DecideFetch(e, caller, rid, action)
    \/ \E updateError \in BOOLEAN : DecideUpdate(e, updateError)

\* sendEmail on the workers E, in an environment whose gateway answers with one
\* of Outcomes, whose duplicate lookup errors as RpcFaults allows and whose
\* email_logs writes fail as LogFaults allows.
Send(E, Outcomes, RpcFaults, LogFaults) ==
  \E e \in E :
    \/ \E rpcError \in RpcFaults : SendCheckDuplicate(e, rpcError)
    \/ \E insertError \in LogFaults : SendLog(e, insertError)
    \/ \E outcome \in Outcomes : SendAttempt(e, outcome)
    \/ \E updateError \in LogFaults : SendMarkSent(e, updateError)
    \/ \E updateError \in LogFaults : SendMarkRetrying(e, updateError)
    \/ SendWake(e)
    \/ \E updateError \in LogFaults : SendMarkFailed(e, updateError)

\* Booking: the browser clients and one edge worker serving the admin's
\* decisions one after the other.  The email environment is kept to a gateway
\* that delivers or errors and a store that answers: sendEmail reads and
\* writes no reservation.
Next == Reserve \/ Decide({1}) \/ Send({1}, {"id", "error"}, {FALSE}, {FALSE})

Spec == Init /\ [][Next]_vars

\* Notification: one edge worker serving invocations one after the other, in
\* an environment where the gateway and every store call of sendEmail may fail.
NextMail == Decide({1}) \/ Send({1}, GatewayOutcomes, BOOLEAN, BOOLEAN)

SpecMail == InitBooked /\ [][NextMail]_vars

\* Concurrent invocations on NumEdges workers.
NextRace == Decide(Edges) \/ Send(Edges, {"id", "error"}, {FALSE}, {FALSE})

SpecRace == InitBooked /\ [][NextRace]_vars

\* The duplicate window: invocations one after the other while time passes;
\* the duplicate lookup may error.
NextWindow == Decide({1}) \/ Send({1}, {"id", "error"}, BOOLEAN, {FALSE}) \/ Tick

SpecWindow == InitBooked /\ [][NextWindow]_vars

\* The calendar over the days: the browser clients select and submit while
\* the day changes; notify-admin is served to whoever posts to it.
NextCalendar ==
  Book(Clients) \/ Midnight \/ Notify({1}) \/ Send({1}, {"id", "error"}, {FALSE}, {FALSE})

SpecCalendar == Init /\ [][NextCalendar]_vars

\* The admin's notifications: check-unfilled-slots and notify-admin served one
\* after the other; the clock stands still, so that every send falls inside
\* the duplicate window of the sends before it.
NextAlert ==
  Alert({1}) \/ Notify({1}) \/ Send({1}, {"id", "error"}, BOOLEAN, {FALSE})

SpecAlert == InitAlert /\ [][NextAlert]_vars

\* The worker's restarts: one edge worker serving decisions one after the
\* other, stopped and started again at any point of a send; the gateway
\* delivers or errors and the store answers.
NextRestart ==
  Decide({1}) \/ Send({1}, {"id", "error"}, {FALSE}, {FALSE}) \/ Restart(1)

SpecRestart == InitBooked /\ [][NextRestart]_vars

\* The capacity policy: the browser clients reserve while admin_settings is
\* updated.
Configure ==
  \E caller \in Callers, M \in 1..MaxPerDay : UpdateSettings(caller, M)

NextPolicy == Reserve \/ Configure

SpecPolicy == Init /\ [][NextPolicy]_vars

\* -------------------------------------------------------------------- claims
RowsOf(v, d) ==
  {i \in 1..Len(reservations) :
     reservations[i].volunteer_id = v /\ reservations[i].reservation_date = d}

ActiveRowsOf(v, d) == {i \in RowsOf(v, d) : reservations[i].status # "cancelled"}

\* C1: whatever the interleaving of the reservers' capacity checks and
\* inserts, no date ever has more than MAX_SLOTS reservations that are not
\* cancelled.
C1_CapacityNeverExceeded ==
  \A d \in Dates : ActiveCount(reservations, d) <= MAX_SLOTS

\* C2: for each volunteer and date at most one reservation is not cancelled.
C2_OneActivePerVolunteerDate ==
  \A v \in Volunteers, d \in Dates : Cardinality(ActiveRowsOf(v, d)) <= 1

\* C2's case: a volunteer asked twice for the same date, the second request
\* was refused as a duplicate, and a decision has since confirmed the
\* reservation after it had been cancelled.
C2_Witness ==
  \E c1, c2 \in Clients :
    /\ c1 # c2
    /\ cl[c1].result = "Reserved" /\ cl[c2].result = "DuplicateBooking"
    /\ cl[c1].volunteer = cl[c2].volunteer /\ cl[c1].date = cl[c2].date
    /\ invocations = 2
    /\ \E i \in RowsOf(cl[c1].volunteer, cl[c1].date) :
         reservations[i].status = "confirmed"

\* Clients c1 and c2 are the only callers for their volunteer and date, both
\* have answered, no decision has touched the table and the other volunteers
\* leave a slot of the date free.
TwoCallsOfOneVolunteer(c1, c2) ==
  /\ c1 # c2
  /\ cl[c1].pc = "done" /\ cl[c2].pc = "done"
  /\ cl[c1].volunteer = cl[c2].volunteer /\ cl[c1].date = cl[c2].date
  /\ \A c3 \in Clients \ {c1, c2} :
       ~(cl[c3].volunteer = cl[c1].volunteer /\ cl[c3].date = cl[c1].date)
  /\ invocations = 0
  /\ OthersCount(cl[c1].volunteer, cl[c1].date) < MAX_SLOTS

\* C3 as stated: of two concurrent calls of one volunteer for a date with free
\* capacity, one succeeds and the other returns DuplicateBooking.
C3_OneSuccessOneDuplicate ==
  \A c1, c2 \in Clients :
    TwoCallsOfOneVolunteer(c1, c2) =>
      {cl[c1].result, cl[c2].result} = {"Reserved", "DuplicateBooking"}

\* C3 amended: exactly one of the two calls succeeds and one row is inserted;
\* the other call returns DuplicateBooking, or CapacityExceeded when the
\* successful insert took the last free slot before the other's capacity check.
C3_OneSuccessOtherRefused ==
  \A c1, c2 \in Clients :
    TwoCallsOfOneVolunteer(c1, c2) =>
      /\ Cardinality(RowsOf(cl[c1].volunteer, cl[c1].date)) = 1
      /\ \/ {cl[c1].result, cl[c2].result} = {"Reserved", "DuplicateBooking"}
         \/ /\ {cl[c1].result, cl[c2].result} = {"Reserved", "CapacityExceeded"}
            /\ OthersCount(cl[c1].volunteer, cl[c1].date) = MAX_SLOTS - 1

\* C3's case: both calls passed the capacity check before either inserted,
\* and the second insert was refused by the constraint.
C3_Witness ==
  \E c1, c2 \in Clients :
    /\ TwoCallsOfOneVolunteer(c1, c2)
    /\ cl[c1].result = "Reserved" /\ cl[c2].result = "DuplicateBooking"

\* C4: MAX_SLOTS + 1 concurrent calls of distinct volunteers for one date that
\* was empty: exactly MAX_SLOTS succeed, the remaining one returns
\* CapacityExceeded and inserts nothing.
C4_ExactlyCapacitySucceed ==
  \A d \in Dates :
    ( /\ \A c \in Clients : cl[c].pc = "done" /\ cl[c].date = d
      /\ \A c1, c2 \in Clients : c1 # c2 => cl[c1].volunteer # cl[c2].volunteer
      /\ Cardinality(Clients) = MAX_SLOTS + 1
      /\ invocations = 0 )
    => /\ Cardinality({c \in Clients : cl[c].result = "Reserved"}) = MAX_SLOTS
       /\ Cardinality({c \in Clients : cl[c].result = "CapacityExceeded"}) = 1
       /\ ActiveCount(reservations, d) = MAX_SLOTS

\* C5: a reservation's status only ever changes pending -> confirmed,
\* pending -> cancelled or confirmed -> cancelled; a cancelled reservation
\* stays cancelled.
C5_StatusTransitions ==
  [][\A i \in 1..Len(reservations) :
       reservations'[i].status # reservations[i].status =>
         <<reservations[i].status, reservations'[i].status>> \in
           {<<"pending", "confirmed">>, <<"pending", "cancelled">>,
            <<"confirmed", "cancelled">>}]_vars

\* Worker e takes the update step of a cancel whose reservation is cancelled.
SecondCancelStep(e) ==
  /\ inv[e].pc = "update" /\ inv'[e].pc # "update"
  /\ inv[e].action = "cancel"
  /\ reservations[inv[e].reservation_id].status = "cancelled"

\* C6: cancelling a reservation that is already cancelled leaves the table,
\* and so every date's count, as the first cancel left it, and the handler
\* goes on to the notification: the only error the step can answer is the
\* store's failure of the update itself.
C6_ReleaseIdempotent ==
  [][\A e \in Edges :
       SecondCancelStep(e) =>
         /\ reservations' = reservations
         /\ \A d \in Dates :
              ActiveCount(reservations', d) = ActiveCount(reservations, d)
         /\ \/ inv'[e].pc = "send"
            \/ inv'[e].resp.error = "Error al actualizar reservacion"]_vars

\* C6's case: the second invocation cancelled the reservation that the first
\* invocation had cancelled (its cancellation went to the gateway).
C6_Witness ==
  \E e \in Edges :
    /\ inv[e].n = 2 /\ inv[e].action = "cancel"
    /\ inv[e].emailType = "cancellation"
    /\ reservations[inv[e].reservation_id].status = "cancelled"
    /\ \E g \in gatewayCalls :
         /\ g.by = 1 /\ g.emailType = "cancellation"
         /\ g.relatedId = inv[e].reservation_id

\* C7: once the update is committed, no step of the notification or of the
\* answer changes a reservation, and when the last of MAX_RETRIES gateway
\* attempts has failed the handler answers 200 with the new status and
\* emailSent = false.
C7_DecisionSurvivesFailedEmail ==
  [][\A e \in Edges :
       (inv[e].pc \in SendPcs /\ inv'[e] # inv[e]) =>
         /\ reservations' = reservations
         /\ (inv[e].pc = "mark_failed" =>
               /\ inv'[e].pc = "done"
               /\ inv'[e].resp.code = 200
               /\ inv'[e].resp.error = ""
               /\ inv'[e].resp.status = NewStatus(inv[e].action)
               /\ inv'[e].resp.emailSent = FALSE)]_vars

\* C7's case: every gateway attempt failed, the decision was answered and
\* the reservation has the status that was answered.
C7_Witness ==
  \E e \in Edges :
    /\ inv[e].pc = "done" /\ inv[e].retryCount = MAX_RETRIES
    /\ Cardinality({g \in gatewayCalls : g.by = inv[e].n /\ ~g.ok}) = MAX_RETRIES
    /\ inv[e].resp.emailSent = FALSE /\ inv[e].resp.code = 200
    /\ reservations[inv[e].reservation_id].status = inv[e].resp.status

\* C8: sendEmail never raises into the handler: an invocation whose update
\* was committed (sendEmail was called) answers 200, and sendEmail returned
\* Delivered, Suppressed or Exhausted.
C8_SendNeverRaises ==
  \A e \in Edges :
    (inv[e].pc = "done" /\ inv[e].emailType # "") =>
      /\ inv[e].resp.code = 200
      /\ \/ inv[e].result.success /\ inv[e].result.messageId # 0
         \/ inv[e].result.success /\ inv[e].result.error = "duplicate prevention"
         \/ ~inv[e].result.success /\ inv[e].result.error # ""

\* C9: of the sends that carry the same recipient, type and well-formed
\* related id within the window, at most one has a delivery accepted by the
\* gateway.
C9_AtMostOnceEffective ==
  \A g1, g2 \in gatewayCalls :
    ( /\ g1.ok /\ g2.ok
      /\ g1.to = g2.to /\ g1.emailType = g2.emailType
      /\ g1.relatedId = g2.relatedId /\ isValidUUID(g1.relatedId) )
    => g1.by = g2.by

\* An audit row of the key (to, emailType, relatedId), in status sent or
\* pending, created less than TIME_WINDOW_MINUTES ago.
RecentRow(to, emailType, relatedId) ==
  \E i \in 1..Len(email_logs) :
    /\ <<email_logs[i].email_to, email_logs[i].email_type, email_logs[i].related_id>>
         = <<to, emailType, relatedId>>
    /\ email_logs[i].status \notin {"retrying", "failed"}
    /\ now - email_logs[i].created_at < TIME_WINDOW_MINUTES

\* Worker e takes the duplicate check for a well-formed related id.
DuplicateCheckStep(e) ==
  /\ inv[e].pc = "send" /\ inv'[e].pc # "send"
  /\ apiKey
  /\ isValidUUID(inv[e].relatedId)

Suppressed(r) == r.success /\ r.error = "duplicate prevention"

\* C10 as stated: the check suppresses if and only if such a row exists.
C10_SuppressIffRecentRow ==
  [][\A e \in Edges :
       DuplicateCheckStep(e) =>
         ( (inv'[e].pc = "done" /\ Suppressed(inv'[e].result))
             <=> RecentRow(inv[e].to, inv[e].emailType, inv[e].relatedId) )]_vars

\* C10 amended: the check suppresses only if such a row exists, and does
\* suppress if such a row exists and the lookup did not error.
C10_SuppressIffRecentRowAndLookupOk ==
  [][\A e \in Edges :
       DuplicateCheckStep(e) =>
         ( (inv'[e].pc = "done" /\ Suppressed(inv'[e].result))
             <=> ( /\ RecentRow(inv[e].to, inv[e].emailType, inv[e].relatedId)
                   /\ ~inv'[e].rpcError ) )]_vars

\* C10's case: a send was let through, its lookup having answered, although
\* a row of its key was sent, because that row is TIME_WINDOW_MINUTES old.
C10_Witness ==
  \E e \in Edges :
    /\ inv[e].pc = "log" /\ ~inv[e].rpcError
    /\ \E i \in 1..Len(email_logs) :
         /\ email_logs[i].email_to = inv[e].to
         /\ email_logs[i].email_type = inv[e].emailType
         /\ email_logs[i].related_id = inv[e].relatedId
         /\ email_logs[i].status = "sent"
         /\ now - email_logs[i].created_at = TIME_WINDOW_MINUTES

\* The recipients, types and related ids a send may carry.
Recipients == Volunteers \cup {adminEmail}
EmailTypes == {"new_reservation", "confirmation", "cancellation",
               "unfilled_slots_alert", "test"}
MalformedIds == (0 - (MaxDay + 1))..0
WellFormedIds == 1..(Len(reservations) + 1)

\* C11: whatever the audit log holds, the duplicate check answers false for
\* a related id that is absent or not in UUID format, and answers false when
\* the lookup errors; a send with such a related id goes on from the check
\* to its audit row and the gateway.
C11_FailOpen ==
  /\ [](\A to \in Recipients, emailType \in EmailTypes :
          /\ \A relatedId \in MalformedIds, rpcError \in BOOLEAN :
               ~checkDuplicateEmail(email_logs, now, to, emailType, relatedId, rpcError)
          /\ \A relatedId \in WellFormedIds :
               ~checkDuplicateEmail(email_logs, now, to, emailType, relatedId, TRUE))
  /\ [][\A e \in Edges :
          ( /\ inv[e].pc = "send" /\ inv'[e].pc # "send"
            /\ apiKey
            /\ ~isValidUUID(inv[e].relatedId) )
          => /\ inv'[e].pc = "log"
             /\ gatewayCalls' = gatewayCalls /\ email_logs' = email_logs]_vars

\* C11's case: the second alert for a day passed the duplicate check although
\* the first alert for that day had just been delivered.
C11_Witness ==
  \E e \in Edges :
    /\ inv[e].pc = "log" /\ inv[e].n = 2
    /\ ~isValidUUID(inv[e].relatedId)
    /\ \E g \in gatewayCalls :
         /\ g.ok /\ g.by = 1
         /\ g.to = inv[e].to /\ g.emailType = inv[e].emailType
         /\ g.relatedId = inv[e].relatedId

\* The gateway calls of the invocation number n.
CallsBy(n) == {g \in gatewayCalls : g.by = n}

\* The audit row of invocation e's send is the row the send appended, and it
\* has the status and retry count that j failed attempts leave behind:
\* pending before any failure, retrying with retry_count = j after the j-th.
RowAfterFailures(e, j) ==
  /\ inv[e].logId # 0
  /\ LET row == email_logs[inv[e].logId] IN
       /\ row.status = IF j = 0 THEN "pending" ELSE "retrying"
       /\ row.retry_count = j
       /\ (j > 0 => row.error_message # "")
       /\ row.sent_at = -1

\* While invocation e's send runs, its audit row follows the attempts.
RowFollowsAttempts(e) ==
  /\ inv[e].pc \in {"attempt", "sleep", "mark_sent"}
       => RowAfterFailures(e, inv[e].retryCount)
  /\ inv[e].pc \in {"mark_retrying", "mark_failed"}
       => RowAfterFailures(e, inv[e].retryCount - 1)

\* Invocation e's send is over, having got a message id on attempt k after
\* failures on the attempts before: it returned Delivered with that id and
\* its audit row is sent, with sent_at set and retry_count = k - 1.
DeliveredOnAttempt(e, k) ==
  /\ inv[e].result.success /\ inv[e].result.messageId # 0
  /\ inv[e].result.messageId = inv[e].messageId
  /\ inv[e].logId # 0
  /\ LET row == email_logs[inv[e].logId] IN
       /\ row.status = "sent"
       /\ row.sent_at # -1
       /\ row.retry_count = k - 1
       /\ row.resend_message_id = inv[e].result.messageId

\* The gateway answered invocation e's send with failures on the attempts
\* 1..k-1 and with a message id on attempt k, and the send is over.
GatewayGaveIdOnAttempt(e, k) ==
  /\ inv[e].pc = "done"
  /\ \A g \in CallsBy(inv[e].n) : g.attempt <= k /\ (g.ok <=> g.attempt = k)
  /\ \A a \in 1..k : \E g \in CallsBy(inv[e].n) : g.attempt = a

GatewayAlwaysFailed(e) ==
  /\ inv[e].pc = "done"
  /\ CallsBy(inv[e].n) # {}
  /\ \A g \in CallsBy(inv[e].n) : ~g.ok

\* The send made exactly MAX_RETRIES gateway calls and returned Exhausted
\* with the last error.
ExhaustedAfterMaxRetries(e) ==
  /\ {g.attempt : g \in CallsBy(inv[e].n)} = 1..MAX_RETRIES
  /\ Cardinality(CallsBy(inv[e].n)) = MAX_RETRIES
  /\ ~inv[e].result.success
  /\ inv[e].result.error # "" /\ inv[e].result.error = inv[e].lastError

\* The send's audit row is failed, with a non-empty error message.
RowFailed(e) ==
  /\ inv[e].logId # 0
  /\ email_logs[inv[e].logId].status = "failed"
  /\ email_logs[inv[e].logId].error_message # ""

C14_SuppressedTouchesNothing ==
  /\ [](\A e \in Edges :
          (inv[e].pc = "done" /\ Suppressed(inv[e].result)) =>
            /\ CallsBy(inv[e].n) = {}
            /\ inv[e].logId = 0 /\ inv[e].result.logId = 0
            /\ inv[e].result.messageId = 0)
  /\ [][\A e \in Edges :
          ( /\ inv[e].pc = "send" /\ inv'[e] # inv[e]
            /\ apiKey
            /\ checkDuplicateEmail(email_logs, now, inv[e].to, inv[e].emailType,
                                   inv[e].relatedId, FALSE) )
          => /\ inv'[e].pc = "done" /\ Suppressed(inv'[e].result)
             /\ email_logs' = email_logs
             /\ gatewayCalls' = gatewayCalls]_vars

\* C14's case: a send was suppressed by the row of a concurrent send of the
\* same key, which went to the gateway.
C14_Witness ==
  \E e \in Edges :
    /\ inv[e].pc = "done" /\ Suppressed(inv[e].result)
    /\ \E i \in 1..Len(email_logs) :
         /\ email_logs[i].email_to = inv[e].to
         /\ email_logs[i].email_type = inv[e].emailType
         /\ email_logs[i].related_id = inv[e].relatedId
    /\ \E g \in gatewayCalls :
         g.by # inv[e].n /\ g.relatedId = inv[e].relatedId /\ g.emailType = inv[e].emailType

\* Worker e takes the duplicate check of a cancellation while the audit row
\* of an earlier cancellation notification for the same reservation, which
\* the gateway accepted, is inside the window.
RepeatedCancelCheckStep(e) ==
  /\ inv[e].pc = "send" /\ inv'[e].pc # "send"
  /\ inv[e].handler = "confirm-reservation" /\ inv[e].action = "cancel"
  /\ RecentRow(inv[e].to, "cancellation", inv[e].reservation_id)
  /\ \E g \in gatewayCalls :
       /\ g.ok /\ g.by # inv[e].n
       /\ g.emailType = "cancellation" /\ g.relatedId = inv[e].reservation_id

\* The decision is answered with the status cancelled and its send, being
\* suppressed, hands nothing to the gateway.
AnsweredCancelledWithoutSend(e) ==
  /\ inv'[e].pc = "done"
  /\ inv'[e].resp.code = 200 /\ inv'[e].resp.status = "cancelled"
  /\ reservations'[inv[e].reservation_id].status = "cancelled"
  /\ Suppressed(inv'[e].result)
  /\ gatewayCalls' = gatewayCalls

\* A decision that was answered after a suppressed send made no gateway call.
SuppressedDecisionsSentNothing ==
  \A e \in Edges :
    (inv[e].pc = "done" /\ Suppressed(inv[e].result)) => CallsBy(inv[e].n) = {}

\* C15 as stated: cancelling a cancelled reservation inside the window of the
\* earlier cancellation notification answers cancelled and hands no second
\* cancellation to the gateway.
C15_NoSecondCancellation ==
  /\ []SuppressedDecisionsSentNothing
  /\ [][\A e \in Edges :
          RepeatedCancelCheckStep(e) => AnsweredCancelledWithoutSend(e)]_vars

\* C15 amended: the same, provided the duplicate lookup of the second
\* decision does not error.
C15_NoSecondCancellationIfLookupOk ==
  /\ []SuppressedDecisionsSentNothing
  /\ [][\A e \in Edges :
          (RepeatedCancelCheckStep(e) /\ ~inv'[e].rpcError)
            => AnsweredCancelledWithoutSend(e)]_vars

\* C15's case: the second cancel of a reservation was answered cancelled, its
\* notification suppressed, the first one's having been delivered.
C15_Witness ==
  \E e \in Edges :
    /\ inv[e].pc = "done" /\ inv[e].n = 2 /\ inv[e].action = "cancel"
    /\ Suppressed(inv[e].result) /\ inv[e].resp.status = "cancelled"
    /\ \E g \in gatewayCalls :
         /\ g.ok /\ g.by = 1 /\ g.emailType = "cancellation"
         /\ g.relatedId = inv[e].reservation_id
    /\ Cardinality({g \in gatewayCalls : g.ok}) = 1

\* C16: once an alert for a target day was delivered, a later trigger of
\* check-unfilled-slots for that day inside the window (the clock stands
\* still) makes no gateway call: it is suppressed.
C16_OneAlertPerDay ==
  /\ \A g1, g2 \in gatewayCalls :
       ( /\ g1.emailType = "unfilled_slots_alert"
         /\ g2.emailType = "unfilled_slots_alert"
         /\ g1.relatedId = g2.relatedId
         /\ g1.ok )
       => g2.by <= g1.by
  /\ \A e \in Edges :
       ( /\ inv[e].handler = "check-unfilled-slots" /\ inv[e].pc = "done"
         /\ inv[e].emailType = "unfilled_slots_alert"
         /\ \E g \in gatewayCalls :
              /\ g.ok /\ g.by < inv[e].n
              /\ g.emailType = "unfilled_slots_alert"
              /\ g.relatedId = inv[e].relatedId )
       => Suppressed(inv[e].result)

\* A new_reservation notification to the admin for the reservation i has been
\* requested: notify-admin is serving it, or its send reached the audit log
\* or the gateway.
NewReservationNotified(i) ==
  \/ \E e \in Edges :
       /\ inv[e].handler = "notify-admin" /\ inv[e].reservation_id = i
       /\ inv[e].emailType = "new_reservation" /\ inv[e].to = adminEmail
  \/ \E g \in gatewayCalls :
       g.emailType = "new_reservation" /\ g.to = adminEmail /\ g.relatedId = i
  \/ \E j \in 1..Len(email_logs) :
       /\ email_logs[j].email_type = "new_reservation"
       /\ email_logs[j].email_to = adminEmail /\ email_logs[j].related_id = i

\* C17: a handleReservation that has answered with success has had the
\* new_reservation notification for the row it inserted sent to the admin
\* (nothing else in the program acts for the client once it has answered).
C17_ReservedIsNotified ==
  \A c \in Clients :
    (cl[c].pc = "done" /\ cl[c].result = "Reserved") =>
      \E i \in RowsOf(cl[c].volunteer, cl[c].date) : NewReservationNotified(i)

\* C18: no step inserts a reservation whose date is before today or is a
\* Saturday or a Sunday.
C18_NoPastOrWeekendInsert ==
  [][Len(reservations') > Len(reservations) =>
       LET r == reservations'[Len(reservations')] IN
         /\ r.reservation_date >= today
         /\ r.reservation_date % 7 \in 1..5]_vars

\* C19: a confirm-reservation request of a caller without a bearer token,
\* with an invalid token or without the admin role is answered 401 or 403 and
\* has no update, audit row or gateway call of its own; the step that serves
\* it changes no table, and every change of a reservation is a step of an
\* invocation whose caller is an admin.
C19_DecideAdminOnly ==
  /\ [](\A e \in Edges :
          (inv[e].handler = "confirm-reservation" /\ inv[e].caller # "admin") =>
            /\ inv[e].pc = "done"
            /\ inv[e].resp.code \in {401, 403} /\ inv[e].resp.error # ""
            /\ inv[e].resp.status = ""
            /\ inv[e].emailType = "" /\ inv[e].logId = 0
            /\ CallsBy(inv[e].n) = {})
  /\ [][\A e \in Edges :
          (inv'[e].n # inv[e].n /\ inv'[e].caller # "admin") =>
            /\ reservations' = reservations
            /\ email_logs' = email_logs
            /\ gatewayCalls' = gatewayCalls]_vars
  /\ [][reservations' # reservations =>
          \E e \in Edges :
            /\ inv[e].caller = "admin" /\ inv[e].pc = "update"
            /\ inv'[e] # inv[e]]_vars

\* C19's case: after an admin's decision confirmed a reservation, a request
\* of a signed-in caller without the admin role was answered 403 and the
\* table is as the admin left it.
C19_Witness ==
  \E e \in Edges :
    /\ inv[e].n = 2 /\ inv[e].caller = "not_admin"
    /\ inv[e].resp.code = 403
    /\ \E i \in 1..Len(reservations) : reservations[i].status = "confirmed"
    /\ Cardinality({i \in 1..Len(reservations) : reservations[i].status # "pending"}) = 1

\* The row of invocation e's reservation holds what e's decision writes.
DecisionCommitted(e) ==
  /\ inv[e].reservation_id \in 1..Len(reservations)
  /\ LET r == reservations[inv[e].reservation_id] IN
       /\ r.status = NewStatus(inv[e].action)
       /\ (r.confirmed_at # -1) <=> (inv[e].action = "confirm")

\* Invocation e has no audit row and no gateway call of its own.
NothingDispatched(e) ==
  /\ inv[e].emailType = "" /\ inv[e].logId = 0
  /\ CallsBy(inv[e].n) = {}

\* C20: a decision appends its audit row and calls the gateway only while
\* the store holds the status it wrote; before its update has succeeded
\* nothing is dispatched, and a decision whose reservation is not found or
\* whose update fails answers an error having dispatched nothing.
C20_CommitBeforeDispatch ==
  /\ [](\A e \in Edges :
          inv[e].handler = "confirm-reservation" =>
            /\ inv[e].pc = "update" => NothingDispatched(e)
            /\ (inv[e].pc = "done" /\ inv[e].resp.error \in
                   {"Reservacion no encontrada", "Error al actualizar reservacion"})
                 => inv[e].resp.code = 500 /\ NothingDispatched(e)
            /\ inv[e].pc \in SendPcs => DecisionCommitted(e))
  /\ [][\A e \in Edges :
          ( /\ inv[e].handler = "confirm-reservation" /\ inv'[e] # inv[e]
            /\ (email_logs' # email_logs \/ gatewayCalls' # gatewayCalls) )
          => /\ inv[e].pc \in SendPcs /\ DecisionCommitted(e)
             /\ reservations' = reservations]_vars

\* C20's case: a first decision was committed and its notification delivered;
\* the update of a second decision failed and it was answered with the error,
\* the only gateway call being the first decision's.
C20_Witness ==
  \E e \in Edges :
    /\ inv[e].n = 2 /\ inv[e].pc = "done"
    /\ inv[e].resp.error = "Error al actualizar reservacion"
    /\ reservations[inv[e].reservation_id].status # NewStatus(inv[e].action)
    /\ \E g \in gatewayCalls : g.ok /\ g.by = 1
    /\ \A g \in gatewayCalls : g.by = 1

\* C21: the capacity check of handleReservation goes by the capacity
\* admin_settings holds when it runs: it lets the call on to its insert if the
\* date's count of rows not cancelled is below max_volunteers_per_day and
\* answers CapacityExceeded otherwise.
C21_CapacityFromPolicy ==
  [][\A c \in Clients :
       (cl[c].pc = "idle" /\ cl'[c].pc # "idle") =>
         IF get_available_slots(reservations, admin_settings, cl'[c].date) > 0
           THEN cl'[c].pc = "insert"
           ELSE cl'[c].pc = "done" /\ cl'[c].result = "CapacityExceeded"]_vars

\* The wait after the failed attempt number a, in milliseconds.
ExpectedDelay(a) == IF a = 1 THEN 1000 ELSE 2000

\* The audit row of invocation e's send is retrying, with retry_count = a and
\* the error of the attempt that failed last.
RowRetrying(e, a) ==
  /\ inv[e].logId # 0
  /\ LET row == email_logs[inv[e].logId] IN
       /\ row.status = "retrying" /\ row.retry_count = a
       /\ row.error_message = inv[e].lastError /\ row.error_message # ""

\* The order of the retry loop's steps: a failed attempt other than the last
\* goes to the row's update and from there to the wait, the next attempt
\* starts from the wait only, and the last failed attempt goes to the final
\* update, which returns without a wait.
RetryLoopOrder(e) ==
  /\ (inv[e].pc = "attempt" /\ inv'[e].pc \notin {"attempt", "mark_sent"}) =>
       /\ inv'[e].retryCount = inv[e].retryCount + 1
       /\ inv'[e].pc = IF inv'[e].retryCount \in 1..(MAX_RETRIES - 1)
                         THEN "mark_retrying" ELSE "mark_failed"
  /\ (inv[e].pc = "mark_retrying" /\ inv'[e] # inv[e]) =>
       /\ inv'[e].pc = "sleep"
       /\ inv'[e].delay = ExpectedDelay(inv[e].retryCount)
  /\ (inv[e].pc = "sleep" /\ inv'[e] # inv[e]) =>
       inv'[e].pc = "attempt" /\ inv'[e].retryCount = inv[e].retryCount
  /\ (inv'[e].pc = "attempt" /\ inv[e].pc # "attempt" /\ inv'[e].retryCount > 0) =>
       inv[e].pc = "sleep"
  /\ (inv[e].pc = "mark_failed" /\ inv'[e] # inv[e]) =>
       /\ inv'[e].pc = "done" /\ inv'[e].delay = inv[e].delay
       /\ gatewayCalls' = gatewayCalls

AuditTransitions ==
  {<<"pending", "retrying">>, <<"pending", "sent">>, <<"pending", "failed">>,
   <<"retrying", "retrying">>, <<"retrying", "sent">>, <<"retrying", "failed">>}

C24_NoRowLeftOpen ==
  /\ \A n \in 1..MaxInvocations : Cardinality(CallsBy(n)) <= MAX_RETRIES
  /\ \A i \in 1..Len(email_logs) :
       email_logs[i].status \in {"pending", "retrying"} =>
         \E e \in Edges : inv[e].logId = i /\ inv[e].pc \in SendPcs

\* Worker e starts an invocation of check-unfilled-slots that gets to the
\* check: the request is an admin's and ADMIN_EMAIL is configured.
UnfilledCheckStep(e) ==
  /\ inv'[e].n # inv[e].n
  /\ inv'[e].handler = "check-unfilled-slots"
  /\ inv'[e].caller = "admin"
  /\ inv'[e].resp.error # "ADMIN_EMAIL no configurado"

\* The next day is a service day and holds fewer reservations that are not
\* cancelled than a day has slots.
TomorrowUnfilled ==
  /\ (today + 1) % 7 \in 1..5
  /\ ActiveCount(reservations, today + 1) < MAX_SLOTS

C25_WitnessFull ==
  /\ ~TomorrowUnfilled
  /\ \E e \in Edges :
       /\ inv[e].handler = "check-unfilled-slots" /\ inv[e].caller = "admin"
       /\ inv[e].resp.code = 200
  /\ email_logs = <<>> /\ gatewayCalls = {}

\* Invocation e's send has an audit row of its notification.
HasAuditRow(e) ==
  /\ inv[e].logId \in 1..Len(email_logs)
  /\ LET row == email_logs[inv[e].logId] IN
       /\ row.email_to = inv[e].to /\ row.email_type = inv[e].emailType
       /\ row.related_id = (IF isValidUUID(inv[e].relatedId) THEN inv[e].relatedId ELSE 0)

\* The row of invocation e's send records the outcome of the gateway calls
\* made so far: nothing before the first answer is written, the last error
\* and the number of failures while the send waits, the message id and the
\* time once it is delivered, the last error once it is exhausted.
OutcomeRecorded(e) ==
  LET row == email_logs[inv[e].logId] IN
    /\ inv[e].pc = "sleep" =>
         /\ row.status = "retrying" /\ row.error_message = inv[e].lastError
         /\ row.retry_count = Cardinality(CallsBy(inv[e].n))
    /\ (inv[e].pc = "done" /\ inv[e].result.messageId # 0) =>
         /\ row.status = "sent" /\ row.resend_message_id = inv[e].result.messageId
         /\ row.sent_at # -1
         /\ row.retry_count = Cardinality(CallsBy(inv[e].n)) - 1
    /\ (inv[e].pc = "done" /\ ~inv[e].result.success /\ CallsBy(inv[e].n) # {}) =>
         /\ row.status = "failed" /\ row.error_message = inv[e].result.error
         /\ row.error_message # ""

\* Worker e calls the gateway.
GatewayStep(e) ==
  /\ inv[e].pc = "attempt" /\ inv'[e] # inv[e]
  /\ gatewayCalls' # gatewayCalls

C27_OneRowAnyStatus ==
  /\ [](\A v \in Volunteers, d \in Dates : Cardinality(RowsOf(v, d)) <= 1)
  /\ [][\A c \in Clients :
          ( /\ cl[c].pc = "insert" /\ cl'[c] # cl[c]
            /\ RowsOf(cl[c].volunteer, cl[c].date) # {} )
          => /\ reservations' = reservations
             /\ cl'[c].pc = "done" /\ cl'[c].result = "DuplicateBooking"]_vars

\* C27's case: a volunteer whose reservation for a date was cancelled asked
\* again and was answered DuplicateBooking, the date having a free slot and
\* the volunteer no reservation that is not cancelled.
C27_Witness ==
  \E c \in Clients :
    /\ cl[c].pc = "done" /\ cl[c].result = "DuplicateBooking"
    /\ ActiveRowsOf(cl[c].volunteer, cl[c].date) = {}
    /\ \E i \in RowsOf(cl[c].volunteer, cl[c].date) :
         reservations[i].status = "cancelled"
    /\ ActiveCount(reservations, cl[c].date) < MAX_SLOTS

\* C28: a reservation's confirmed_at is set exactly when its status is
\* confirmed: an insert leaves it null, the update of a confirm sets it to
\* the time of the update, whatever the row held, and the update of a cancel
\* sets it to null, whatever the row held.
C28_ConfirmedAtIffConfirmed ==
  /\ [](\A i \in 1..Len(reservations) :
          reservations[i].confirmed_at # -1 <=> reservations[i].status = "confirmed")
  /\ [][Len(reservations') > Len(reservations) =>
          /\ reservations'[Len(reservations')].confirmed_at = -1
          /\ reservations'[Len(reservations')].status = "pending"]_vars
  /\ [][\A e \in Edges :
          (inv[e].pc = "update" /\ inv'[e].pc = "send") =>
            LET r == reservations'[inv[e].reservation_id] IN
              IF inv[e].action = "confirm"
                THEN r.status = "confirmed" /\ r.confirmed_at = now
                ELSE r.status = "cancelled" /\ r.confirmed_at = -1]_vars

\* C28's case: a reservation that a first decision had confirmed (its
\* confirmation went to the gateway) was cancelled by a second decision, and
\* its confirmed_at is null again.
C28_Witness ==
  \E e \in Edges :
    /\ inv[e].n = 2 /\ inv[e].action = "cancel" /\ inv[e].emailType = "cancellation"
    /\ reservations[inv[e].reservation_id].status = "cancelled"
    /\ reservations[inv[e].reservation_id].confirmed_at = -1
    /\ \E g \in gatewayCalls :
         /\ g.by = 1 /\ g.emailType = "confirmation"
         /\ g.relatedId = inv[e].reservation_id

\* The audit rows of the key of invocation e's send.
RowsOfKey(e) ==
  {i \in 1..Len(email_logs) :
     /\ email_logs[i].email_to = inv[e].to
     /\ email_logs[i].email_type = inv[e].emailType
     /\ email_logs[i].related_id = inv[e].relatedId}

\* Worker e takes the duplicate check of a send whose key has audit rows
\* inside the window, every one of them retrying or failed.
CheckAmongUnsentRowsStep(e) ==
  /\ DuplicateCheckStep(e)
  /\ RowsOfKey(e) # {}
  /\ \A i \in RowsOfKey(e) :
       /\ email_logs[i].status \in {"retrying", "failed"}
       /\ now - email_logs[i].created_at < TIME_WINDOW_MINUTES

\* C29: a send whose key has only retrying or failed rows inside the window
\* is not suppressed: its check leads to the insert of its own pending row
\* (the store accepting it), and from there to the gateway.
C29_UnsentRowsNeverSuppress ==
  [][\A e \in Edges :
       /\ CheckAmongUnsentRowsStep(e) =>
            /\ inv'[e].pc = "log" /\ ~Suppressed(inv'[e].result)
       /\ (inv[e].pc = "log" /\ inv'[e] # inv[e]) =>
            /\ inv'[e].pc = "attempt" /\ inv'[e].logId = Len(email_logs) + 1
            /\ Len(email_logs') = Len(email_logs) + 1
            /\ email_logs'[inv'[e].logId].status = "pending"
            /\ email_logs'[inv'[e].logId].email_to = inv[e].to
            /\ email_logs'[inv'[e].logId].email_type = inv[e].emailType
            /\ email_logs'[inv'[e].logId].related_id = inv[e].relatedId
       /\ (inv[e].pc = "attempt" /\ inv'[e] # inv[e]) =>
            \E g \in gatewayCalls' \ gatewayCalls :
              g.by = inv[e].n /\ g.to = inv[e].to /\ g.emailType = inv[e].emailType]_vars

\* C29's case: while a send waits between two attempts, its row retrying, a
\* second send of the same key has its own pending row and an id from the
\* gateway.
C29_Witness ==
  \E e1, e2 \in Edges :
    /\ e1 # e2
    /\ inv[e1].pc = "sleep" /\ email_logs[inv[e1].logId].status = "retrying"
    /\ inv[e2].pc = "mark_sent" /\ inv[e2].logId > inv[e1].logId
    /\ inv[e2].logId \in RowsOfKey(e1)
    /\ email_logs[inv[e2].logId].status = "pending"
    /\ \E g \in CallsBy(inv[e2].n) : g.ok

\* C29's other case: a send of the key of a send that ended exhausted, its
\* row failed, was delivered.
C29_WitnessFailed ==
  \E e \in Edges :
    /\ inv[e].pc = "done" /\ inv[e].result.messageId # 0
    /\ \E i \in RowsOfKey(e) : i < inv[e].logId /\ email_logs[i].status = "failed"

\* C30: a suppressed send returns success = true without a message id and
\* without a log id; the decision it belongs to is answered 200 with
\* emailSent = true and no message id, having made no gateway call; and an
\* answer with emailSent = true carries a message id exactly when the
\* gateway accepted a call of that invocation.
C30_SuppressedReportedSent ==
  \A e \in Edges :
    /\ (inv[e].pc = "done" /\ Suppressed(inv[e].result)) =>
         /\ inv[e].result.success
         /\ inv[e].result.messageId = 0 /\ inv[e].result.logId = 0
         /\ CallsBy(inv[e].n) = {}
         /\ inv[e].handler = "confirm-reservation" =>
              /\ inv[e].resp.code = 200 /\ inv[e].resp.error = ""
              /\ inv[e].resp.status = NewStatus(inv[e].action)
              /\ inv[e].resp.emailSent
              /\ inv[e].resp.messageId = 0 /\ inv[e].resp.logId = 0
    /\ ( /\ inv[e].handler = "confirm-reservation" /\ inv[e].pc = "done"
         /\ inv[e].resp.emailSent ) =>
         /\ inv[e].resp.messageId # 0 <=> \E g \in CallsBy(inv[e].n) : g.ok
         /\ inv[e].resp.messageId = 0 <=> Suppressed(inv[e].result)

\* C30's case: a confirm was answered emailSent = true without a message id
\* and without a gateway call of its own: its notification was suppressed by
\* the row of another confirm of the same reservation.
C30_Witness ==
  \E e \in Edges :
    /\ inv[e].pc = "done" /\ inv[e].action = "confirm"
    /\ inv[e].resp.emailSent /\ inv[e].resp.messageId = 0
    /\ CallsBy(inv[e].n) = {}
    /\ reservations[inv[e].reservation_id].status = "confirmed"
    /\ \E i \in 1..Len(email_logs) :
         /\ email_logs[i].email_type = "confirmation"
         /\ email_logs[i].related_id = inv[e].reservation_id

====
